---- MODULE Spec2Model ----
(***************************************************************************)
(* A model of the AreaScanInference client (src/clients/inference_client.py):*)
(* port resolution from the workcell configuration files, the gRPC channel  *)
(* and stub it opens, the health check, the two inference calls with their  *)
(* client-side confidence filter, and close(); and of its two front ends:  *)
(* the command-line tool (src/areascan_profiler.py) and the window with its *)
(* background inference workers (src/areascan_profiler_ui.py).              *)
(***************************************************************************)
EXTENDS Integers, Sequences, FiniteSets, TLC

(***************************************************************************)
(* Bounds of the model.                                                     *)
(***************************************************************************)
\* Longest prediction list a response carries.
MaxPreds == 3
\* Most images the command-line tool is given.
MaxImages == 2
\* Most detect_objects / segment_sheets calls made: two for an image.
MaxCalls == 2 * MaxImages
\* Most close() calls made on the client.
MaxCloses == 2
\* Most clients a program constructs one after the other.
MaxClients == 2
\* Most inference workers the window starts.
MaxRuns == 2
\* Most signals queued for the interactive thread and not yet handled.
MaxQueue == 3

(***************************************************************************)
(* Python values: what json.load produces and what the port argument and    *)
(* the client's fields hold.  A value is a record [t, v]: its type tag and  *)
(* its payload.                                                             *)
(***************************************************************************)
PyNone == [t |-> "NoneType", v |-> 0]
PyBool(b) == [t |-> "bool", v |-> b]
PyInt(n) == [t |-> "int", v |-> n]
\* A float, kept as its number of tenths (600215 is 60021.5).
PyFloat(tenths) == [t |-> "float", v |-> tenths]
PyStr(s) == [t |-> "str", v |-> s]
PyList(items) == [t |-> "list", v |-> items]
PyDict(kv) == [t |-> "dict", v |-> kv]
\* An instance of a class that defines neither __bool__ nor __len__.
PyObject(name) == [t |-> "object", v |-> name]

EmptyDict == PyDict(<<>>)

\* `is not None` in place of the truth test.
TruthyIsNotNone(x) == x.t # "NoneType"

\* bool(x), as `if port:` and `if self.channel:` evaluate it.
Truthy(x) ==
    CASE x.t = "NoneType" -> FALSE
      [] x.t = "bool" -> x.v
      [] x.t = "int" -> x.v # 0
      [] x.t = "float" -> x.v # 0
      [] x.t = "str" -> x.v # ""
      [] x.t = "list" -> Len(x.v) > 0
      [] x.t = "dict" -> DOMAIN x.v # {}
      [] OTHER -> TRUE

\* Only a dict has .get; on any other value the attribute lookup raises.
HasGet(x) == x.t = "dict"

\* d.get(key, default) on a dict d.
DictGet(d, key, default) == IF key \in DOMAIN d.v THEN d.v[key] ELSE default

(***************************************************************************)
(* The configuration files.                                                 *)
(***************************************************************************)
\* config_paths, in the order the resolver tries them.
ConfigPaths == <<"workcell_base.json", "workcell.json">>

DefaultPort == 60021

\* The three nested keys above ServerPort.
OuterKeys == <<"ApplicationGrpcSettings", "GrpcServices", "AreaScanInference">>

\* A document with the nested shape and `inner` as the AreaScanInference object.
Nested(inner) ==
    PyDict("ApplicationGrpcSettings" :>
        PyDict("GrpcServices" :> PyDict("AreaScanInference" :> inner)))

WithPort(p) == Nested(PyDict("ServerPort" :> p))

\* Values a file may hold in the ServerPort field.
PortValues ==
    { PyInt(60021), PyInt(8080), PyInt(70000), PyInt(0),
      PyStr("60021"), PyStr(""), PyFloat(600215), PyFloat(0),
      PyList(<<PyInt(8080)>>), PyList(<<>>),
      PyDict("port" :> PyInt(8080)), EmptyDict,
      PyBool(TRUE), PyBool(FALSE), PyNone }

\* Documents that parse but do not have the nested shape down to ServerPort.
BrokenDocs ==
    { EmptyDict,                                           \* no key at all
      Nested(EmptyDict),                                   \* ServerPort missing
      PyDict("ApplicationGrpcSettings" :> EmptyDict),      \* GrpcServices missing
      PyList(<<PyInt(1)>>),                                \* top level is no object
      PyDict("ApplicationGrpcSettings" :> PyNone),         \* a level is null
      PyDict("ApplicationGrpcSettings" :>
          PyDict("GrpcServices" :> PyStr("x"))) }          \* a level is a string

Docs == {WithPort(p) : p \in PortValues} \cup BrokenDocs

\* A file: missing; in a directory the process may not search, so that the
\* stat behind config_path.exists() fails with PermissionError, which exists()
\* passes on (Python 3.8 to 3.13; from 3.14 on exists() answers False, the
\* missing file); present but unreadable; present with text that is not JSON;
\* present with a document.
FileMissing == [st |-> "missing", doc |-> PyNone]
FileInaccessible == [st |-> "inaccessible", doc |-> PyNone]
FileUnreadable == [st |-> "unreadable", doc |-> PyNone]
FileMalformed == [st |-> "malformed", doc |-> PyNone]
FileWith(doc) == [st |-> "parsed", doc |-> doc]

FileStates ==
    {FileMissing, FileInaccessible, FileUnreadable, FileMalformed}
        \cup {FileWith(d) : d \in Docs}

\* Every state of the two configuration files.
FileSystems == [1..Len(ConfigPaths) -> FileStates]

\* The few file systems the client life cycle is explored under.
LifecycleFileSystems ==
    { <<FileMissing, FileMissing>>,
      <<FileMalformed, FileWith(WithPort(PyInt(8080)))>> }

(***************************************************************************)
(* _get_port_from_config                                                    *)
(***************************************************************************)
NoExc == "none"

\* The chain of .get calls on the parsed document: [exc, port].
RECURSIVE GetChain(_, _)
GetChain(cur, i) ==
    IF ~HasGet(cur) THEN [exc |-> "AttributeError", port |-> PyNone]
    ELSE IF i > Len(OuterKeys)
         THEN [exc |-> NoExc, port |-> DictGet(cur, "ServerPort", PyNone)]
         ELSE GetChain(DictGet(cur, OuterKeys[i], EmptyDict), i + 1)

\* The body of the try statement for one existing file: open, json.load, the
\* chain of .get calls.
TryReadPort(file) ==
    CASE file.st = "unreadable" -> [exc |-> "OSError", port |-> PyNone]
      [] file.st = "malformed" -> [exc |-> "JSONDecodeError", port |-> PyNone]
      [] OTHER -> GetChain(file.doc, 1)

\* The classes `except Exception` catches.
CaughtByExcept(exc) == exc \in {"OSError", "JSONDecodeError", "AttributeError"}

\* config_path.exists(), which stands before the try statement: whether it
\* raises, and what it answers when it does not.
ExistsRaises(file) == file.st = "inaccessible"
Exists(file) == file.st # "missing"

\* A candidate the loop has probed (config_path.exists()), put in front of
\* what the rest of the loop gives.
Probed(i, res) == [res EXCEPT !.probed = <<i>> \o @]

\* The loop over config_paths from candidate i on: [raised, value, probed];
\* raised is the exception that leaves the function, NoExc when it returns
\* value; probed lists the candidates looked at, in order.
RECURSIVE ScanConfigs(_, _)
ScanConfigs(fs, i) ==
    IF i > Len(ConfigPaths)
    THEN [raised |-> NoExc, value |-> PyInt(DefaultPort), probed |-> <<>>]
    ELSE IF ExistsRaises(fs[i])
    THEN [raised |-> "PermissionError", value |-> PyNone, probed |-> <<i>>]
    ELSE IF ~Exists(fs[i]) THEN Probed(i, ScanConfigs(fs, i + 1))
    ELSE LET r == TryReadPort(fs[i]) IN
         IF r.exc # NoExc
         THEN IF CaughtByExcept(r.exc) THEN Probed(i, ScanConfigs(fs, i + 1))
              ELSE [raised |-> r.exc, value |-> PyNone, probed |-> <<i>>]
         ELSE IF Truthy(r.port)
              THEN [raised |-> NoExc, value |-> r.port, probed |-> <<i>>]
              ELSE Probed(i, ScanConfigs(fs, i + 1))

\* The candidates listed the other way round.
GetPortFromConfigReversed(fs) ==
    ScanConfigs([i \in 1..Len(ConfigPaths) |-> fs[Len(ConfigPaths) + 1 - i]], 1)

GetPortFromConfig(fs) == ScanConfigs(fs, 1)

(***************************************************************************)
(* The service side of a stub call.                                         *)
(***************************************************************************)
Hosts == {"localhost", "10.0.0.7"}

\* The port argument: None, or an integer (in or out of the port range).
PortArgs == {PyNone, PyInt(0), PyInt(60021), PyInt(70000), PyInt(-1)}

\* Confidences and thresholds, in hundredths.
Confidences == {40, 91, 95}
Thresholds == {0, 90, 95}

HealthStatuses == {"UNKNOWN", "SERVING", "NOT_SERVING", "SERVICE_UNKNOWN"}

\* Status codes of a failed RPC: the service answered with an error, the
\* deadline passed, the service could not be reached.
RpcCodes == {"INTERNAL", "DEADLINE_EXCEEDED", "UNAVAILABLE"}

\* What a stub call on an open channel ends with.
Reply(status, confs) ==
    [kind |-> "reply", status |-> status, confs |-> confs, code |-> "", exc |-> ""]
RpcFailure(code) ==
    [kind |-> "rpc_error", status |-> "", confs |-> <<>>, code |-> code, exc |-> "RpcError"]
OtherFailure(exc) ==
    [kind |-> "exception", status |-> "", confs |-> <<>>, code |-> "", exc |-> exc]
NoOutcome == [kind |-> "none", status |-> "", confs |-> <<>>, code |-> "", exc |-> ""]

ConfSeqs == UNION {[1..n -> Confidences] : n \in 0..MaxPreds}

Failures == {RpcFailure(c) : c \in RpcCodes} \cup {OtherFailure("RuntimeError")}
HealthOutcomes == {Reply(s, <<>>) : s \in HealthStatuses} \cup Failures
InferenceOutcomes == {Reply("", cs) : cs \in ConfSeqs} \cup Failures

\* The few inference inputs the client life cycle is explored under.
LifecycleThresholds == {0, 90}
LifecycleOutcomes == {Reply("", <<>>), Reply("", <<95, 40, 91>>)} \cup Failures

\* e.details() of a failed RPC.
Details(code) == "details of " \o code

\* The predictions of a response with confidences cs; a prediction's place in
\* the response tells it from the others.
ResponsePredictions(cs) ==
    [i \in 1..Len(cs) |->
        [prediction_class |-> "sheet", confidence |-> cs[i],
         center_x |-> i, center_y |-> i, width |-> 1, height |-> 1,
         polygon_points |-> <<[x |-> i, y |-> i], [x |-> i + 1, y |-> i]>>]]

(***************************************************************************)
(* State.                                                                   *)
(***************************************************************************)
VARIABLES
    files,          \* the two configuration files
    client,         \* the InferenceClient object: its fields
    channel,        \* the gRPC channel: open or closed, and its close() calls
    closedMsgs,     \* "Closed connection" lines printed
    closes,         \* close() calls made on the client
    inferenceCalls, \* detect_objects / segment_sheets calls made
    rpcIssued,      \* DetectObjects / SegmentSheets stub invocations made
    last,           \* the latest call: its inputs, what it met, what it gave
    channelsOpened, \* channels grpc.insecure_channel has returned
    clients,        \* InferenceClient objects constructed
    uuids,          \* uuid.uuid4() draws made
    requests,       \* the inference requests built, in their order
    cli,            \* the command-line tool: where main() is and what it did
    gui             \* the window: its widgets, its workers, the queued signals

\* What the client's methods read and write.
clientVars ==
    <<files, client, channel, closedMsgs, closes, inferenceCalls, rpcIssued, last,
      channelsOpened, clients, uuids, requests>>

\* What the front ends add to it.
front == <<cli, gui>>

vars == <<clientVars, front>>

NoClient ==
    [exists |-> FALSE, failed |-> FALSE, port |-> PyNone, host |-> "", address |-> "",
     channel |-> PyNone, stub |-> PyNone]

Returned(value) == [kind |-> "return", value |-> value, exc |-> "", msg |-> <<>>]
Raised(exc, msg) == [kind |-> "raise", value |-> PyNone, exc |-> exc, msg |-> msg]

\* No port resolution made.
NoResolution == [raised |-> NoExc, value |-> PyNone, probed |-> <<>>]

\* A call: op, the state of the client when it is made, its port argument
\* and what the resolver gave (__init__), its threshold (inference), what the
\* stub invocation ended with, whether it went out and on which channel, and
\* what the call gave.
NoCall ==
    [op |-> "none", state |-> "Uninitialized", port |-> PyNone,
     resolved |-> NoResolution, threshold |-> 0,
     outcome |-> NoOutcome, sent |-> FALSE, via |-> PyNone,
     ret |-> Returned(PyNone)]

\* The state of the client in the terms of the specification's state machine.
ClientState ==
    IF ~client.exists THEN "Uninitialized"
    ELSE IF closes = 0 THEN "Connected" ELSE "Closed"

\* str(x) as an f-string formats it.
PyFormat(x) ==
    CASE x.t = "int" -> ToString(x.v)
      [] x.t = "str" -> x.v
      [] x.t = "float" -> ToString(x.v \div 10) \o "." \o ToString(x.v % 10)
      [] x.t = "bool" -> IF x.v THEN "True" ELSE "False"
      [] x.t = "NoneType" -> "None"
      [] x.t = "list" -> IF Len(x.v) = 0 THEN "[]" ELSE "[...]"
      [] x.t = "dict" -> IF DOMAIN x.v = {} THEN "{}" ELSE "{...}"
      [] OTHER -> "<object>"

Address(host, port) == host \o ":" \o PyFormat(port)

(***************************************************************************)
(* InferenceClient.__init__                                                 *)
(***************************************************************************)
\* `if not port:` in place of `if port is None:`.
ResolvePortIfFalsy(port, fs) ==
    IF ~Truthy(port) THEN GetPortFromConfig(fs)
    ELSE [raised |-> NoExc, value |-> port, probed |-> <<>>]

\* The port the constructor settles on: [raised, value].
ResolvePort(port, fs) ==
    IF port.t = "NoneType" THEN GetPortFromConfig(fs)
    ELSE [raised |-> NoExc, value |-> port, probed |-> <<>>]

\* The fields __init__ sets.
NewClient(port, host) ==
    [exists |-> TRUE, failed |-> FALSE, port |-> port, host |-> host,
     address |-> Address(host, port),
     channel |-> PyObject("channel"), stub |-> PyObject("stub")]

\* The channel grpc.insecure_channel returns.
NewChannel == [open |-> TRUE, closeCalls |-> 0]

\* channelOk: whether grpc.insecure_channel returns a channel.
Construct(port, host, channelOk) ==
    /\ ~client.exists /\ ~client.failed
    /\ LET r == ResolvePort(port, files)
           call == [NoCall EXCEPT !.op = "__init__", !.port = port, !.resolved = r] IN
       IF r.raised # NoExc
       THEN /\ client' = [client EXCEPT !.failed = TRUE]
            /\ last' = [call EXCEPT !.ret = Raised(r.raised, <<>>)]
            /\ UNCHANGED <<channel, channelsOpened, clients>>
       ELSE IF ~channelOk
       THEN /\ client' = [client EXCEPT !.failed = TRUE]
            /\ last' = [call EXCEPT !.ret = Raised("ChannelError", <<>>)]
            /\ UNCHANGED <<channel, channelsOpened, clients>>
       ELSE /\ client' = NewClient(r.value, host)
            /\ channel' = NewChannel
            /\ channelsOpened' = channelsOpened + 1
            /\ clients' = clients + 1
            /\ last' = [call EXCEPT !.ret = Returned(PyNone)]
    /\ UNCHANGED <<files, closedMsgs, closes, inferenceCalls, rpcIssued, uuids, requests>>

\* The command-line tool and the window before they are started.
NoCli == [pc |-> "off"]
NoGui == [pc |-> "off"]

(***************************************************************************)
(* Specification of the port resolver: every state of the configuration     *)
(* files, every port argument.                                              *)
(***************************************************************************)
InitClient ==
    /\ client = NoClient
    /\ channel = [open |-> FALSE, closeCalls |-> 0]
    /\ closedMsgs = 0
    /\ closes = 0
    /\ inferenceCalls = 0
    /\ rpcIssued = 0
    /\ last = NoCall
    /\ channelsOpened = 0
    /\ clients = 0
    /\ uuids = 0
    /\ requests = <<>>

\* No front end runs.
InitFront == cli = NoCli /\ gui = NoGui

InitResolver == files \in FileSystems /\ InitClient /\ InitFront

NextResolver ==
    \E p \in PortArgs, h \in Hosts, ok \in BOOLEAN :
        Construct(p, h, ok) /\ UNCHANGED front

SpecResolver == InitResolver /\ [][NextResolver]_vars

(***************************************************************************)
(* The stub and the channel.                                                *)
(***************************************************************************)
\* What self.stub.<Method>(request, timeout=...) ends with: on an open channel
\* what the service side does, on a closed one gRPC refuses the call with a
\* ValueError before anything is sent.
InvokeStub(ch, outcome) == IF ch.open THEN outcome ELSE OtherFailure("ValueError")

\* Whether the invocation goes out on the channel.
GoesOut(ch) == ch.open

\* A stub that opens a channel of its own for the call.
StubChannelReopened(c) == PyObject("another channel")

\* The channel self.stub invokes on: the one __init__ built the stub with.
StubChannel(c) == c.channel

\* A close that leaves the channel usable.
ChannelCloseLeavesOpen(ch) == [open |-> ch.open, closeCalls |-> ch.closeCalls + 1]

\* self.channel.close(): gRPC's close stops new RPCs and may be repeated.
ChannelClose(ch) == [open |-> FALSE, closeCalls |-> ch.closeCalls + 1]

\* The classes an `except Exception` clause catches.
IsException(exc) == exc \in {"RpcError", "RuntimeError", "ValueError"}

(***************************************************************************)
(* check_health                                                             *)
(***************************************************************************)
\* check_health without its `except Exception` clause.
HealthResultNoCatchAll(r) ==
    IF r.kind = "reply" THEN Returned(PyBool(r.status = "SERVING"))
    ELSE IF r.exc = "RpcError" THEN Returned(PyBool(FALSE))
    ELSE Raised(r.exc, <<>>)

\* The try statement around the Check call: r is what the stub call ends with.
HealthResult(r) ==
    IF r.kind = "reply" THEN Returned(PyBool(r.status = "SERVING"))
    ELSE IF r.exc = "RpcError" THEN Returned(PyBool(FALSE))
    ELSE IF IsException(r.exc) THEN Returned(PyBool(FALSE))
    ELSE Raised(r.exc, <<>>)

CheckHealth(outcome) ==
    /\ client.exists
    /\ LET r == InvokeStub(channel, outcome) IN
       last' = [NoCall EXCEPT !.op = "check_health", !.state = ClientState,
                              !.outcome = r, !.sent = GoesOut(channel),
                              !.via = StubChannel(client),
                              !.ret = HealthResult(r)]
    /\ UNCHANGED <<files, client, channel, closedMsgs, closes, inferenceCalls, rpcIssued,
                   channelsOpened, clients, uuids, requests>>

(***************************************************************************)
(* detect_objects and segment_sheets                                        *)
(***************************************************************************)
\* `>` in place of `>=`.
KeepsStrictly(pred, threshold) == pred.confidence > threshold

\* The condition of the list comprehension of detect_objects.
Keeps(pred, threshold) == pred.confidence >= threshold

\* `>` in place of `>=` in segment_sheets alone.
KeepsSegmentStrictly(pred, threshold) == pred.confidence > threshold

\* The condition of the list comprehension of segment_sheets.
KeepsSegment(pred, threshold) == pred.confidence >= threshold

\* The dict detect_objects builds for a kept prediction.
DetectionDict(pred) ==
    [class |-> pred.prediction_class, confidence |-> pred.confidence,
     center_x |-> pred.center_x, center_y |-> pred.center_y,
     width |-> pred.width, height |-> pred.height]

\* The dict segment_sheets builds for a kept prediction.
SegmentationDict(pred) ==
    [class |-> pred.prediction_class, confidence |-> pred.confidence,
     center_x |-> pred.center_x, center_y |-> pred.center_y,
     width |-> pred.width, height |-> pred.height,
     polygon_points |->
        [i \in 1..Len(pred.polygon_points) |->
            <<pred.polygon_points[i].x, pred.polygon_points[i].y>>]]

\* The comprehension: the kept predictions of the response, in its order.
RECURSIVE Comprehension(_, _, _)
Comprehension(op, preds, threshold) ==
    IF preds = <<>> THEN <<>>
    ELSE LET rest == Comprehension(op, Tail(preds), threshold) IN
         IF (IF op = "detect_objects" THEN Keeps(Head(preds), threshold)
             ELSE KeepsSegment(Head(preds), threshold))
         THEN <<IF op = "detect_objects" THEN DetectionDict(Head(preds))
                ELSE SegmentationDict(Head(preds))>> \o rest
         ELSE rest

ResultDict(predictions) ==
    [prediction_count |-> Len(predictions), predictions |-> predictions]

FailurePrefix(op) ==
    IF op = "detect_objects" THEN "Object detection failed: "
    ELSE "Sheet segmentation failed: "

\* The RPC error let through as it is.
WrapRpcErrorNot(op, r) == Raised(r.exc, <<>>)

\* The exception the except clause raises: its message joins these pieces.
WrapRpcError(op, r) ==
    Raised("Exception", <<FailurePrefix(op), r.code, " - ", Details(r.code)>>)

\* The try statement of an inference call: r is what the stub call ends with.
InferenceResult(op, r, threshold) ==
    IF r.kind = "reply"
    THEN Returned(ResultDict(Comprehension(op, ResponsePredictions(r.confs), threshold)))
    ELSE IF r.exc = "RpcError" THEN WrapRpcError(op, r)
    ELSE Raised(r.exc, <<>>)

\* A second invocation after a failed one.
IssueRpcRetrying(r) == rpcIssued' = rpcIssued + (IF r.kind = "reply" THEN 1 ELSE 2)

\* The stub invocation of an inference call, counted.
IssueRpc(r) == rpcIssued' = rpcIssued + 1

\* One id for all the requests.
RequestIdFixed(n) == PyStr("uuid-0")

\* str(uuid.uuid4()) of the n-th draw: the draws of the random source are
\* taken to differ, and the text of a UUID tells it from every other.
RequestId(n) == PyStr("uuid-" \o ToString(n))

\* channels=3 of a request.
RequestChannels == 3

\* The request an inference call builds; `by` is the client that builds it.
BuildRequest(by, n) == [id |-> RequestId(n), channels |-> RequestChannels, by |-> by]

Infer(op, threshold, outcome) ==
    /\ client.exists
    /\ inferenceCalls < MaxCalls
    /\ inferenceCalls' = inferenceCalls + 1
    /\ uuids' = uuids + 1
    /\ requests' = Append(requests, BuildRequest(clients, uuids'))
    /\ LET r == InvokeStub(channel, outcome) IN
       /\ IssueRpc(r)
       /\ last' = [NoCall EXCEPT !.op = op, !.state = ClientState,
                                 !.threshold = threshold, !.outcome = r,
                                 !.sent = GoesOut(channel),
                                 !.via = StubChannel(client),
                                 !.ret = InferenceResult(op, r, threshold)]
    /\ UNCHANGED <<files, client, channel, closedMsgs, closes, channelsOpened, clients>>

DetectObjects(threshold, outcome) == Infer("detect_objects", threshold, outcome)

SegmentSheets(threshold, outcome) == Infer("segment_sheets", threshold, outcome)

(***************************************************************************)
(* close                                                                    *)
(***************************************************************************)
Close ==
    /\ client.exists
    /\ closes < MaxCloses
    /\ closes' = closes + 1
    /\ IF Truthy(client.channel)
       THEN /\ channel' = ChannelClose(channel)
            /\ closedMsgs' = closedMsgs + 1
       ELSE UNCHANGED <<channel, closedMsgs>>
    /\ last' = [NoCall EXCEPT !.op = "close", !.state = ClientState]
    /\ UNCHANGED <<files, client, inferenceCalls, rpcIssued,
                   channelsOpened, clients, uuids, requests>>

(***************************************************************************)
(* Specification of the client's life cycle.                                *)
(***************************************************************************)
Init == files \in LifecycleFileSystems /\ InitClient /\ InitFront

Next ==
    \/ \E p \in PortArgs, h \in Hosts, ok \in BOOLEAN :
          Construct(p, h, ok) /\ UNCHANGED front
    \/ \E o \in HealthOutcomes : CheckHealth(o) /\ UNCHANGED front
    \/ \E t \in LifecycleThresholds, o \in LifecycleOutcomes :
          DetectObjects(t, o) /\ UNCHANGED front
    \/ \E t \in LifecycleThresholds, o \in LifecycleOutcomes :
          SegmentSheets(t, o) /\ UNCHANGED front
    \/ Close /\ UNCHANGED front

Spec == Init /\ [][Next]_vars

(***************************************************************************)
(* Specification of the inference calls of a connected client: every        *)
(* threshold, every response up to MaxPreds predictions, every failure.     *)
(***************************************************************************)
InitInference ==
    /\ files = <<FileMissing, FileMissing>>
    /\ client = NewClient(PyInt(DefaultPort), "localhost")
    /\ channel = NewChannel
    /\ closedMsgs = 0
    /\ closes = 0
    /\ inferenceCalls = 0
    /\ rpcIssued = 0
    /\ last = [NoCall EXCEPT !.op = "__init__"]
    /\ channelsOpened = 1
    /\ clients = 1
    /\ uuids = 0
    /\ requests = <<>>
    /\ InitFront

NextInference ==
    \/ \E t \in Thresholds, o \in InferenceOutcomes :
          DetectObjects(t, o) /\ UNCHANGED front
    \/ \E t \in Thresholds, o \in InferenceOutcomes :
          SegmentSheets(t, o) /\ UNCHANGED front

SpecInference == InitInference /\ [][NextInference]_vars

(***************************************************************************)
(* Specification of the requests of a program that uses several clients.    *)
(***************************************************************************)
\* The program constructs a further client and makes its next calls on it;
\* the earlier one is left as it is.
AnotherClient(host) ==
    /\ client.exists
    /\ clients < MaxClients
    /\ client' = NewClient(PyInt(DefaultPort), host)
    /\ channel' = NewChannel
    /\ channelsOpened' = channelsOpened + 1
    /\ clients' = clients + 1
    /\ last' = [NoCall EXCEPT !.op = "__init__", !.port = PyInt(DefaultPort)]
    /\ UNCHANGED <<files, closedMsgs, closes, inferenceCalls, rpcIssued, uuids, requests>>

NextRequests ==
    \/ \E t \in LifecycleThresholds, o \in LifecycleOutcomes :
          DetectObjects(t, o) /\ UNCHANGED front
    \/ \E t \in LifecycleThresholds, o \in LifecycleOutcomes :
          SegmentSheets(t, o) /\ UNCHANGED front
    \/ \E h \in Hosts : AnotherClient(h) /\ UNCHANGED front

SpecRequests == InitInference /\ [][NextRequests]_vars

(***************************************************************************)
(* The command-line tool: main() of src/areascan_profiler.py.               *)
(***************************************************************************)
\* A file: its place in the listing of its directory, its suffix, and whether
\* Image.open, resize and tobytes go through on it.
File(name, suffix, opens) == [name |-> name, suffix |-> suffix, opens |-> opens]

\* The kinds of entry a folder holds: an image, a file with an image suffix
\* that is no image, an image of a suffix globbed later, and another file.
EntryKinds ==
    {[suffix |-> "jpg", opens |-> TRUE], [suffix |-> "jpg", opens |-> FALSE],
     [suffix |-> "bmp", opens |-> TRUE], [suffix |-> "txt", opens |-> FALSE]}

\* The folders: every listing of at most MaxImages entries.
Folders ==
    UNION {{[i \in 1..n |-> File(i, ks[i].suffix, ks[i].opens)] : ks \in [1..n -> EntryKinds]}
              : n \in 0..MaxImages}

\* A path option: None, or the (non-empty) path of an existing file or folder.
PyPath(target) == [t |-> "str", v |-> target]

\* `if image:` / `elif folder:` on a path option.
Given(option) == option # PyNone

ImageArgs == {PyNone, PyPath(File(0, "jpg", TRUE)), PyPath(File(0, "png", FALSE))}
FolderArgs == {PyNone} \cup {PyPath(listing) : listing \in Folders}
Models == {"detection", "segmentation", "both"}

\* The threshold --confidence gives, in hundredths.
CliConfidence == 90

\* What the service does with an inference call of the tool.
CliOutcomes ==
    {Reply("", <<95, 40, 91>>), RpcFailure("UNAVAILABLE"), OtherFailure("RuntimeError")}

\* The configuration files the tool is run with.
CliFileSystems == {<<FileMissing, FileMissing>>, <<FileInaccessible, FileMissing>>}

\* folder_path.glob('*.' + suffix): the entries of that suffix.
Glob(listing, suffix) == SelectSeq(listing, LAMBDA f : f.suffix = suffix)

\* image_paths.
ImagePaths(image, folder) ==
    IF Given(image) THEN <<image.v>>
    ELSE Glob(folder.v, "jpg") \o Glob(folder.v, "png")
            \o Glob(folder.v, "jpeg") \o Glob(folder.v, "bmp")

\* The exit status of the process when the body of main() returns rv.  main
\* is a click command: called as main() it runs the body, drops what the
\* body returns and leaves through sys.exit(0), so exit() never gets rv.
ExitCode(rv) == 0

\* `return rv` in the body of main().
Return(c, rv, end) ==
    [c EXCEPT !.pc = "done", !.ret = PyInt(rv), !.exit = ExitCode(rv), !.end = end]

\* main() as it is entered: its options, what the health probe met and what
\* check_health gave, image_paths and idx, the images attempted and the
\* ones that failed, the inference calls issued, and what the run ended with.
StartCli(image, folder, model) ==
    [pc |-> "construct", image |-> image, folder |-> folder, model |-> model,
     port |-> PyNone, host |-> "localhost", confidence |-> CliConfidence,
     probe |-> NoOutcome, health |-> PyNone, paths |-> <<>>, idx |-> 0, attempted |-> <<>>, failed |-> {},
     issued |-> <<>>,
     summary |-> FALSE, ret |-> PyNone, exit |-> -1, end |-> "running"]

\* The classes `except Exception` catches: every exception a client method
\* or the image library raises.
Catches(exc) == exc \in {"Exception", "PermissionError", "ChannelError"} \/ IsException(exc)

CliConstruct(channelOk) ==
    /\ cli.pc = "construct"
    /\ Construct(cli.port, cli.host, channelOk)
    /\ cli' = IF last'.ret.kind = "raise" /\ Catches(last'.ret.exc)
              THEN Return(cli, 1, "init failed")
              ELSE [cli EXCEPT !.pc = "health"]
    /\ UNCHANGED gui

\* A gate that lets every answer of the health check through.
UnhealthyNever(ret) == FALSE

\* `if not client.check_health():`
Unhealthy(ret) == ~Truthy(ret.value)

CliCheckHealth(outcome) ==
    /\ cli.pc = "health"
    /\ CheckHealth(outcome)
    /\ LET c == [cli EXCEPT !.probe = last'.outcome, !.health = last'.ret.value] IN
       cli' = IF Unhealthy(last'.ret) THEN Return(c, 1, "unhealthy")
              ELSE [c EXCEPT !.pc = "paths"]
    /\ UNCHANGED gui

CliPaths ==
    /\ cli.pc = "paths"
    /\ cli' = IF ~Given(cli.image) /\ ~Given(cli.folder) THEN Return(cli, 1, "no path")
              ELSE LET image_paths == ImagePaths(cli.image, cli.folder) IN
                   IF image_paths = <<>> THEN Return(cli, 1, "no images")
                   ELSE [cli EXCEPT !.paths = image_paths, !.idx = 1, !.pc = "load"]
    /\ UNCHANGED <<clientVars, gui>>

\* The end of one pass of the for loop: the next image, or the summary.
NextImage(c) ==
    IF c.idx < Len(c.paths) THEN [c EXCEPT !.idx = c.idx + 1, !.pc = "load"]
    ELSE [c EXCEPT !.pc = "summary"]

\* A handler that gives the batch up.
OnImageErrorAbort(c) == [c EXCEPT !.failed = c.failed \cup {c.idx}, !.pc = "done", !.end = "aborted"]

\* `except Exception as e: print(...); continue`
OnImageError(c) == NextImage([c EXCEPT !.failed = c.failed \cup {c.idx}])

\* Image.open, resize, tobytes.
CliLoad ==
    /\ cli.pc = "load"
    /\ LET img_path == cli.paths[cli.idx]
           c == [cli EXCEPT !.attempted = Append(cli.attempted, img_path)] IN
       cli' = IF ~img_path.opens THEN OnImageError(c)
              ELSE IF c.model \in {"detection", "both"} THEN [c EXCEPT !.pc = "detect"]
              ELSE [c EXCEPT !.pc = "segment"]
    /\ UNCHANGED <<clientVars, gui>>

\* An inference call of the tool for the image at idx, and how it ended.
Issued(c, op, ret) ==
    [c EXCEPT !.issued = Append(c.issued,
                                [image |-> c.idx, op |-> op, ok |-> ret.kind = "return"])]

\* A detection part with a try of its own: its failure is reported and the
\* segmentation part still runs.
AfterDetectOwnTry(c, ret) ==
    IF c.model \in {"segmentation", "both"} THEN [c EXCEPT !.pc = "segment"]
    ELSE IF ret.kind = "raise" THEN OnImageError(c) ELSE NextImage(c)

\* Where the try body goes from the detection call: to the except clause
\* when the call raised, else on to the segmentation part or to its end.
AfterDetect(c, ret) ==
    IF ret.kind = "raise" /\ Catches(ret.exc) THEN OnImageError(c)
    ELSE IF c.model \in {"segmentation", "both"} THEN [c EXCEPT !.pc = "segment"]
    ELSE NextImage(c)

CliDetect(outcome) ==
    /\ cli.pc = "detect"
    /\ DetectObjects(cli.confidence, outcome)
    /\ cli' = AfterDetect(Issued(cli, "detect_objects", last'.ret), last'.ret)
    /\ UNCHANGED gui

CliSegment(outcome) ==
    /\ cli.pc = "segment"
    /\ SegmentSheets(cli.confidence, outcome)
    /\ LET c == Issued(cli, "segment_sheets", last'.ret) IN
       cli' = IF last'.ret.kind = "raise" /\ Catches(last'.ret.exc) THEN OnImageError(c)
              ELSE NextImage(c)
    /\ UNCHANGED gui

\* The summary lines.
CliSummary ==
    /\ cli.pc = "summary"
    /\ cli' = [cli EXCEPT !.summary = TRUE, !.pc = "close"]
    /\ UNCHANGED <<clientVars, gui>>

\* client.close() and `return 0`.
CliClose ==
    /\ cli.pc = "close"
    /\ Close
    /\ cli' = Return(cli, 0, "completed")
    /\ UNCHANGED gui

InitCli ==
    /\ files \in CliFileSystems
    /\ InitClient
    /\ cli \in {StartCli(i, f, m) : i \in ImageArgs, f \in FolderArgs, m \in Models}
    /\ gui = NoGui

NextCli ==
    \/ \E ok \in BOOLEAN : CliConstruct(ok)
    \/ \E o \in HealthOutcomes : CliCheckHealth(o)
    \/ CliPaths
    \/ CliLoad
    \/ \E o \in CliOutcomes : CliDetect(o)
    \/ \E o \in CliOutcomes : CliSegment(o)
    \/ CliSummary
    \/ CliClose

SpecCli == InitCli /\ [][NextCli]_vars

\* The tool always takes its next step.
SpecCliFair == SpecCli /\ WF_vars(NextCli)

(***************************************************************************)
(* The window: AreaScanProfilerUI and InferenceWorker of                    *)
(* src/areascan_profiler_ui.py.  The handlers of the window run on the      *)
(* interactive thread, one at a time; a worker's run() goes on beside them  *)
(* on a thread of its own, and what it emits is queued for the interactive  *)
(* thread and handled there in the order of emission.                       *)
(***************************************************************************)
\* The image files the user can point at; the second is no image.
GuiPaths == {"good.png", "broken.jpg"}

\* Image.open, resize and tobytes go through on the file.
ImageOpens(path) == path # "broken.jpg"

\* What a drop gives (never an empty list: dropEvent emits none), and what
\* the file dialog gives (the empty list when it is cancelled).
DroppedLists == {<<"broken.jpg", "good.png">>}
SelectedLists == {<<>>, <<"good.png">>}

\* What the user types into the path field.
PathTexts == {"   ", " good.png ", "missing.png"}

\* str.strip() on those texts.
Strip(text) ==
    CASE text = "   " -> ""
      [] text = " good.png " -> "good.png"
      [] OTHER -> text

\* Path(path).exists()
PathExists(path) == path \in GuiPaths

ModelTypes == {"Object Detection", "Sheet Segmentation", "Both Models"}

\* confidence_slider.value(), as set at construction: hundredths.
SliderValue == 50

\* What the health probe of init_client meets.
GuiHealthOutcomes ==
    {Reply("SERVING", <<>>), Reply("NOT_SERVING", <<>>), RpcFailure("UNAVAILABLE")}

\* What the service does with an inference call of a worker.
GuiOutcomes == {Reply("", <<95, 40, 91>>), RpcFailure("UNAVAILABLE")}

\* A run control that is enabled from the start.
RunBtnInitiallyEnabled == TRUE

\* self.run_btn.setEnabled(False) in create_controls_panel.
RunBtnInitially == FALSE

\* The window after init_ui(): its place in __init__ (pc), the widgets, the
\* current image, the workers started (the last one is self.worker), the
\* signals queued for the interactive thread, and the remote calls made with
\* the threads they were made on.
StartGui ==
    [pc |-> "init_client", runEnabled |-> RunBtnInitially, progressVisible |-> FALSE,
     status |-> "Ready", predictions |-> "", currentImagePath |-> PyNone,
     loadedImages |-> <<>>, workers |-> <<>>, queue |-> <<>>, remote |-> {}]

\* A remote call made by a method running on the given thread.
RemoteCall(g, op, thread) == [g EXCEPT !.remote = g.remote \cup {[op |-> op, thread |-> thread]}]

\* init_client, first half: InferenceClient().
GuiConstruct(channelOk) ==
    /\ gui.pc = "init_client"
    /\ Construct(PyNone, "localhost", channelOk)
    /\ gui' = IF last'.ret.kind = "raise" /\ Catches(last'.ret.exc)
              THEN [gui EXCEPT !.pc = "ready", !.status = "Connection failed"]
              ELSE [gui EXCEPT !.pc = "init_health"]
    /\ UNCHANGED cli

\* init_client, second half: self.client.check_health() and the status line.
GuiCheckHealth(outcome) ==
    /\ gui.pc = "init_health"
    /\ CheckHealth(outcome)
    /\ gui' = RemoteCall(
                 [gui EXCEPT !.pc = "ready",
                             !.status = IF Truthy(last'.ret.value) THEN "Connected"
                                        ELSE "Service not responding"],
                 "check_health", "main")
    /\ UNCHANGED cli

\* show_preview, update_image_info and run_btn.setEnabled(True), as the three
\* loading handlers call them.
Loaded(g, paths) ==
    [g EXCEPT !.loadedImages = paths, !.currentImagePath = PyStr(paths[1]),
              !.runEnabled = TRUE]

OnFilesDropped(paths) ==
    /\ gui.pc = "ready"
    /\ gui' = IF paths # <<>> THEN [Loaded(gui, paths) EXCEPT !.status = "Loaded"]
              ELSE gui
    /\ UNCHANGED <<clientVars, cli>>

SelectFiles(paths) ==
    /\ gui.pc = "ready"
    /\ gui' = IF paths # <<>> THEN Loaded(gui, paths) ELSE gui
    /\ UNCHANGED <<clientVars, cli>>

LoadFromPath(text) ==
    /\ gui.pc = "ready"
    /\ LET path == Strip(text) IN
       gui' = IF path # "" /\ PathExists(path) THEN Loaded(gui, <<path>>)
              ELSE gui
    /\ UNCHANGED <<clientVars, cli>>

\* InferenceWorker.__init__: what the worker keeps, where its run() is, and
\* how many finished or error signals it has emitted.
NewWorker(image_path, model_type, confidence) ==
    [image_path |-> image_path, model_type |-> model_type, confidence |-> confidence,
     pc |-> "load", terminals |-> 0]

\* A click on the run control: run_inference.  A disabled control gives no
\* click.
RunInference(model_type) ==
    /\ gui.pc = "ready"
    /\ gui.runEnabled
    /\ Len(gui.workers) < MaxRuns
    /\ gui' = IF ~Truthy(gui.currentImagePath) THEN gui
              ELSE [gui EXCEPT
                      !.runEnabled = FALSE, !.progressVisible = TRUE,
                      !.workers = Append(gui.workers,
                          NewWorker(gui.currentImagePath, model_type, SliderValue))]
    /\ UNCHANGED <<clientVars, cli>>

\* A worker that writes the status line itself.
EmitDirectly(g, w, kind, payload) == [g EXCEPT !.status = payload]

\* self.progress.emit / self.finished.emit / self.error.emit of worker w: the
\* signal is queued for the interactive thread.
Emit(g, w, kind, payload) ==
    [g EXCEPT !.queue = Append(g.queue, [worker |-> w, kind |-> kind, payload |-> payload]),
              !.workers[w].terminals =
                  g.workers[w].terminals + (IF kind \in {"finished", "error"} THEN 1 ELSE 0)]

\* A worker whose run() has returned: its fields are read no more.
Ended(terminals) ==
    [image_path |-> PyNone, model_type |-> "", confidence |-> 0, pc |-> "done",
     terminals |-> terminals]

\* Where run() of worker w goes next.
WorkerAt(g, w, pc) ==
    IF pc = "done" THEN [g EXCEPT !.workers[w] = Ended(g.workers[w].terminals)]
    ELSE [g EXCEPT !.workers[w].pc = pc]

\* The queue has room for the signals one step of run() emits.
Room == Len(gui.queue) + 2 <= MaxQueue

\* An except clause that lets the exception go by without a signal.
WorkerFailsSilently(g, w, message) == WorkerAt(g, w, "done")

\* `except Exception as e: self.error.emit(str(e))`: run() ends.
WorkerFails(g, w, message) == WorkerAt(Emit(g, w, "error", message), w, "done")

\* self.finished.emit(results): run() ends.
WorkerFinishes(g, w) ==
    WorkerAt(Emit(g, w, "finished", g.workers[w].image_path.v), w, "done")

\* run(): the first progress signal and the loading of the image.
WorkerLoad(w) ==
    /\ w \in DOMAIN gui.workers
    /\ gui.workers[w].pc = "load"
    /\ Room
    /\ LET me == gui.workers[w]
           g == Emit(gui, w, "progress", "Loading image...") IN
       gui' = IF ~ImageOpens(me.image_path.v) THEN WorkerFails(g, w, "cannot open")
              ELSE IF me.model_type \in {"Object Detection", "Both Models"}
              THEN WorkerAt(g, w, "detect")
              ELSE WorkerAt(g, w, "segment")
    /\ UNCHANGED <<clientVars, cli>>

\* run(): the detection part.  With no client (construction failed) the
\* attribute lookup on None raises.
WorkerDetect(w, outcome) ==
    /\ w \in DOMAIN gui.workers
    /\ gui.workers[w].pc = "detect"
    /\ Room
    /\ LET me == gui.workers[w]
           g == Emit(gui, w, "progress", "Running object detection...") IN
       IF ~client.exists
       THEN /\ gui' = WorkerFails(g, w, "AttributeError")
            /\ UNCHANGED clientVars
       ELSE /\ DetectObjects(me.confidence, outcome)
            /\ LET called == RemoteCall(g, "detect_objects", "worker") IN
               gui' = IF last'.ret.kind = "raise"
                      THEN WorkerFails(called, w, last'.ret.exc)
                      ELSE IF me.model_type \in {"Sheet Segmentation", "Both Models"}
                      THEN WorkerAt(called, w, "segment")
                      ELSE WorkerFinishes(called, w)
    /\ UNCHANGED cli

\* run(): the segmentation part and the finished signal.
WorkerSegment(w, outcome) ==
    /\ w \in DOMAIN gui.workers
    /\ gui.workers[w].pc = "segment"
    /\ Room
    /\ LET me == gui.workers[w]
           g == Emit(gui, w, "progress", "Running sheet segmentation...") IN
       IF ~client.exists
       THEN /\ gui' = WorkerFails(g, w, "AttributeError")
            /\ UNCHANGED clientVars
       ELSE /\ SegmentSheets(me.confidence, outcome)
            /\ LET called == RemoteCall(g, "segment_sheets", "worker") IN
               gui' = IF last'.ret.kind = "raise"
                      THEN WorkerFails(called, w, last'.ret.exc)
                      ELSE WorkerFinishes(called, w)
    /\ UNCHANGED cli

\* The interactive thread takes the next queued signal.
Delivered(g) == [g EXCEPT !.queue = Tail(g.queue)]

OnProgress ==
    /\ gui.queue # <<>> /\ Head(gui.queue).kind = "progress"
    /\ gui' = [Delivered(gui) EXCEPT !.status = Head(gui.queue).payload]
    /\ UNCHANGED <<clientVars, cli>>

OnInferenceComplete ==
    /\ gui.queue # <<>> /\ Head(gui.queue).kind = "finished"
    /\ gui' = [Delivered(gui) EXCEPT
                 !.predictions = "results for " \o Head(gui.queue).payload,
                 !.runEnabled = TRUE, !.progressVisible = FALSE,
                 !.status = "Profiling complete"]
    /\ UNCHANGED <<clientVars, cli>>

OnInferenceError ==
    /\ gui.queue # <<>> /\ Head(gui.queue).kind = "error"
    /\ gui' = [Delivered(gui) EXCEPT
                 !.runEnabled = TRUE, !.progressVisible = FALSE,
                 !.status = "Error occurred"]
    /\ UNCHANGED <<clientVars, cli>>

InitGui ==
    /\ files \in CliFileSystems
    /\ InitClient
    /\ cli = NoCli
    /\ gui = StartGui

NextGui ==
    \/ \E ok \in BOOLEAN : GuiConstruct(ok)
    \/ \E o \in GuiHealthOutcomes : GuiCheckHealth(o)
    \/ \E fs \in DroppedLists : OnFilesDropped(fs)
    \/ \E fs \in SelectedLists : SelectFiles(fs)
    \/ \E text \in PathTexts : LoadFromPath(text)
    \/ \E m \in ModelTypes : RunInference(m)
    \/ \E w \in 1..MaxRuns : WorkerLoad(w)
    \/ \E w \in 1..MaxRuns, o \in GuiOutcomes : WorkerDetect(w, o)
    \/ \E w \in 1..MaxRuns, o \in GuiOutcomes : WorkerSegment(w, o)
    \/ OnProgress
    \/ OnInferenceComplete
    \/ OnInferenceError

SpecGui == InitGui /\ [][NextGui]_vars

(***************************************************************************)
(* Properties.                                                              *)
(***************************************************************************)
InferenceOps == {"detect_objects", "segment_sheets"}

Constructing == last.op = "__init__"

\* ServerPort of a document that has the nested shape.
ConfiguredPort(f) ==
    f.doc.v["ApplicationGrpcSettings"].v["GrpcServices"].v["AreaScanInference"].v["ServerPort"]

\* A file that is missing, cannot be read, is not JSON, or lacks the nested
\* ServerPort key.
NoValue(f) ==
    \/ f.st \in {"missing", "unreadable", "malformed"}
    \/ f.st = "parsed" /\ f.doc \in BrokenDocs

\* A file whose ServerPort is a port number.
ValidPortFile(f) ==
    /\ f.st = "parsed"
    /\ \E p \in PortValues : p.t = "int" /\ p.v \in 1..65535 /\ f.doc = WithPort(p)

\* A file that exists, parses and holds a ServerPort that is not falsy.
HoldsPort(f) ==
    /\ f.st = "parsed"
    /\ \E p \in PortValues : Truthy(p) /\ f.doc = WithPort(p)

\* C1: when an explicit port is given (any integer, in or out of the port
\* range), the client's port is exactly that value and no configuration file
\* is looked at, whatever the files hold.
C1_ExplicitPortWins ==
    (Constructing /\ last.port # PyNone) =>
        /\ last.resolved = [raised |-> NoExc, value |-> last.port, probed |-> <<>>]
        /\ client.exists => client.port = last.port

C1_Witness ==
    /\ Constructing /\ last.port = PyInt(0) /\ client.exists
    /\ client.port = PyInt(0)
    /\ files[1] = FileWith(WithPort(PyInt(8080)))

\* C2: with no explicit port the resolver returns for every state of the
\* files and never raises; files that are missing, malformed or without the
\* nested key give 60021, a file with a valid ServerPort (the others giving
\* no value) gives that value, and ServerPort 60021 gives 60021.
C2_ResolverNeverRaises ==
    (Constructing /\ last.port = PyNone) =>
        /\ last.resolved.raised = NoExc
        /\ (\A i \in DOMAIN files : NoValue(files[i]))
              => last.resolved.value = PyInt(60021)
        /\ \A i \in DOMAIN files :
              (ValidPortFile(files[i]) /\ \A j \in DOMAIN files \ {i} : NoValue(files[j]))
                  => last.resolved.value = ConfiguredPort(files[i])
        /\ files[1] = FileWith(WithPort(PyInt(60021)))
              => last.resolved.value = PyInt(60021)

C2_Witness ==
    /\ Constructing /\ last.port = PyNone /\ client.exists
    /\ files[1] = FileMalformed
    /\ files[2] = FileWith(PyList(<<PyInt(1)>>))
    /\ client.port = PyInt(60021)

\* The first candidate that holds a port, 0 when none does.
FirstHolding ==
    LET holding == {i \in DOMAIN files : HoldsPort(files[i])} IN
    IF holding = {} THEN 0 ELSE CHOOSE i \in holding : \A j \in holding : i <= j

\* C3: the candidates are tried in their order, workcell_base.json first: the
\* result the resolver returns is the port of the first one that exists,
\* parses and holds the field (a value that is not falsy); the missing,
\* unparsable and field-less ones before it are skipped, none after it is
\* looked at, and with none the result is the default.
C3_FirstCandidateWins ==
    (Constructing /\ last.port = PyNone /\ last.resolved.raised = NoExc) =>
        LET k == FirstHolding IN
        /\ last.resolved.value =
              IF k = 0 THEN PyInt(60021) ELSE ConfiguredPort(files[k])
        /\ last.resolved.probed =
              [i \in 1..(IF k = 0 THEN Len(ConfigPaths) ELSE k) |-> i]

C3_Witness ==
    /\ Constructing /\ last.port = PyNone /\ client.exists
    /\ files[1] = FileMalformed
    /\ files[2] = FileWith(WithPort(PyInt(8080)))
    /\ client.port = PyInt(8080)
    /\ last.resolved.probed = <<1, 2>>

\* isinstance(x, int): true of an int and of a bool, which is a subclass of it.
IsInstanceOfInt(x) == x.t \in {"int", "bool"}

\* C4: whatever a file holds in ServerPort, the value the resolver returns is
\* an integer.
C4_ResolverReturnsInteger ==
    (Constructing /\ last.port = PyNone /\ last.resolved.raised = NoExc) =>
        IsInstanceOfInt(last.resolved.value)

\* C5: check_health never raises; it returns True exactly when the probe ends
\* with the serving status and False for every other status, RPC error,
\* timeout or other exception.
C5_HealthIsPredicate ==
    last.op = "check_health" =>
        last.ret = Returned(PyBool(last.outcome.kind = "reply"
                                      /\ last.outcome.status = "SERVING"))

C5_Witness ==
    /\ last.op = "check_health"
    /\ last.outcome = OtherFailure("RuntimeError")
    /\ last.ret = Returned(PyBool(FALSE))

\* The predictions of a response with a confidence of at least t.
AtLeast(preds, t) == SelectSeq(preds, LAMBDA q : q.confidence >= t)

\* C6: a successful detect_objects or segment_sheets returns exactly the
\* predictions of the response with confidence >= threshold, in the order of
\* the response, and prediction_count is the length of what it returns;
\* confidences 95, 40, 91 with threshold 90 give count 2 and 95, 91.
C6_FilterKeepsOrder ==
    (last.op \in InferenceOps /\ last.ret.kind = "return") =>
        LET kept == AtLeast(ResponsePredictions(last.outcome.confs), last.threshold)
            got == last.ret.value.predictions IN
        /\ Len(got) = Len(kept)
        /\ \A i \in 1..Len(kept) :
              /\ got[i].confidence = kept[i].confidence
              /\ got[i].center_x = kept[i].center_x
              /\ got[i].class = kept[i].prediction_class
        /\ last.ret.value.prediction_count = Len(got)
        /\ (last.outcome.confs = <<95, 40, 91>> /\ last.threshold = 90) =>
              /\ last.ret.value.prediction_count = 2
              /\ [i \in 1..Len(got) |-> got[i].confidence] = <<95, 91>>

C6_Witness ==
    /\ last.op = "detect_objects" /\ last.ret.kind = "return"
    /\ last.outcome.confs = <<95, 40, 91>> /\ last.threshold = 90
    /\ last.ret.value.prediction_count = 2

\* C7: a transport failure of the remote call of detect_objects or
\* segment_sheets (error status, timeout, unreachable service) reaches the
\* caller as the one exception the call raises for it, whose message carries
\* the status code and the details; no result comes with it.
C7_TransportFailureWrapped ==
    (last.op \in InferenceOps /\ last.outcome.kind = "rpc_error") =>
        /\ last.ret.kind = "raise"
        /\ last.ret.exc = "Exception"
        /\ last.ret.msg[1] = FailurePrefix(last.op)
        /\ last.ret.msg[2] = last.outcome.code
        /\ last.ret.msg[4] = Details(last.outcome.code)
        /\ last.ret.value = PyNone

C7_Witness ==
    /\ last.op = "segment_sheets"
    /\ last.outcome = RpcFailure("DEADLINE_EXCEEDED")
    /\ last.ret.kind = "raise" /\ last.ret.exc = "Exception"

\* C8: no retry: every detect_objects or segment_sheets call makes exactly one
\* stub invocation, whether it succeeds, fails or times out, and on a
\* connected client that one invocation goes out.
C8_OneInvocationPerCall ==
    /\ rpcIssued = inferenceCalls
    /\ (last.op \in InferenceOps /\ last.state = "Connected") => last.sent

C8_Witness ==
    /\ inferenceCalls = 2 /\ rpcIssued = 2
    /\ last.op = "detect_objects"
    /\ last.outcome = RpcFailure("DEADLINE_EXCEEDED")

\* C9: close() is idempotent: however many times it is called, the channel is
\* released once and the closing is reported once.
C9_CloseReleasesOnce ==
    closes >= 1 => (channel.closeCalls = 1 /\ closedMsgs = 1)

RemoteOps == {"check_health", "detect_objects", "segment_sheets"}

\* A call that gave its caller a success.
Succeeded(call) ==
    \/ call.op \in InferenceOps /\ call.ret.kind = "return"
    \/ call.op = "check_health" /\ call.ret = Returned(PyBool(TRUE))

\* C10: a remote operation goes out only while the client is Connected; once
\* close() has been called the channel stays closed, and no later call sends
\* an invocation or returns a success.
C10_NoRpcUnlessConnected ==
    /\ closes >= 1 => ~channel.open
    /\ (last.op \in RemoteOps /\ (last.sent \/ Succeeded(last)))
          => last.state = "Connected"

C10_Witness ==
    /\ closes = 2
    /\ last.op = "detect_objects" /\ last.state = "Closed"
    /\ ~last.sent
    /\ last.ret = Raised("ValueError", <<>>)

\* C11: the channel is opened once, at construction: a constructed client has
\* opened exactly one channel and no later step opens another; every
\* check_health, detect_objects and segment_sheets call invokes on that
\* channel; only __init__ and close() change the channel; and the fields of
\* a constructed client (port, host, address, channel, stub) never change.
C11_OneChannelFixedAddress ==
    [][/\ client.exists => (client' = client /\ channelsOpened' = channelsOpened)
       /\ client'.exists =>
             (channelsOpened' = 1 /\ client'.address = Address(client'.host, client'.port))
       /\ channel' # channel => last'.op \in {"__init__", "close"}
       /\ last'.op \in RemoteOps => last'.via = client.channel]_vars

C11_Witness ==
    /\ client.exists /\ channelsOpened = 1
    /\ client.address = "10.0.0.7:70000"
    /\ inferenceCalls = 2
    /\ last.op = "check_health" /\ last.sent
    /\ last.via = client.channel

\* C12: over any sequence of detect_objects and segment_sheets calls, on one
\* client or on several, every call builds one request, whose id differs
\* from the id of every request built before it and whose channel count is 3.
C12_FreshRequestIds ==
    /\ Len(requests) = inferenceCalls
    /\ \A i \in DOMAIN requests :
          /\ requests[i].channels = 3
          /\ \A j \in 1..(i - 1) : requests[j].id # requests[i].id

C12_Witness ==
    /\ Len(requests) = 3
    /\ requests[1].by = 1 /\ requests[2].by = 2 /\ requests[3].by = 2
    /\ last.op = "segment_sheets"

\* The run met one of the setup failures: no client, a health check that did
\* not return True, no path option, no image found.
SetupFailed ==
    \/ ~client.exists
    \/ cli.health # PyBool(TRUE)
    \/ ~Given(cli.image) /\ ~Given(cli.folder)
    \/ ImagePaths(cli.image, cli.folder) = <<>>

\* C13: the process ends with exit code 1 after each setup failure (client
\* construction failed, health check false, neither --image nor --folder,
\* no image in the folder) and with 0 when the loop was reached and
\* completed, whatever images failed.
C13_ExitCodes ==
    cli.pc = "done" =>
        /\ SetupFailed => cli.exit = 1
        /\ cli.summary => cli.exit = 0

\* C14: an image is loaded or an inference request made only after the client
\* was constructed and a health check returned True; a probe that ends with
\* anything but the serving status ends the run with no image touched.
C14_HealthBeforeImages ==
    /\ (cli.attempted # <<>> \/ inferenceCalls > 0) =>
          (client.exists /\ cli.health = PyBool(TRUE))
    /\ (cli.probe.kind # "none" /\ cli.probe # Reply("SERVING", <<>>)) =>
          (cli.pc = "done" /\ cli.attempted = <<>> /\ inferenceCalls = 0)

C14_Witness ==
    /\ cli.pc = "segment"
    /\ cli.probe = Reply("SERVING", <<>>) /\ cli.health = PyBool(TRUE)
    /\ Len(cli.attempted) = 2 /\ inferenceCalls = 3

\* C15: a failure while loading an image or in an inference call on it never
\* ends the batch: the images attempted are always the first ones of
\* image_paths, each once and in order, and once the loop is entered the run
\* comes to the summary with every image attempted, whichever of them fail.
C15_BatchTolerant ==
    /\ [](/\ Len(cli.attempted) <= Len(cli.paths)
          /\ cli.attempted = SubSeq(cli.paths, 1, Len(cli.attempted)))
    /\ (cli.pc = "load" /\ cli.idx = 1) ~>
          (cli.end = "completed" /\ cli.summary /\ cli.attempted = cli.paths)

C15_Witness ==
    /\ cli.end = "completed" /\ cli.summary
    /\ Len(cli.paths) = 2 /\ cli.attempted = cli.paths
    /\ ~cli.paths[1].opens /\ cli.paths[2].opens
    /\ cli.failed = {1, 2}

\* C16: whenever the run ends with a client constructed, the client has been
\* closed: close() was called and the channel is no longer open.
C16_ClosedBeforeExit ==
    (cli.pc = "done" /\ client.exists) => (closes >= 1 /\ ~channel.open)

\* The workers whose run() has not returned.
Outstanding == {w \in DOMAIN gui.workers : gui.workers[w].pc # "done"}

\* C17: in every reachable state of the window at most one inference worker
\* is outstanding, and while one is the run control is disabled.
C17_SingleInFlight ==
    /\ Cardinality(Outstanding) <= 1
    /\ Outstanding # {} => ~gui.runEnabled

\* C18: every remote call of the window (health check, inference request) is
\* made on a worker's thread, none on the interactive thread.
C18_NoRemoteCallOnMain ==
    \A call \in gui.remote : call.thread = "worker"

\* A step of some worker's run().
WorkerStep ==
    \E w \in 1..MaxRuns :
        \/ WorkerLoad(w)
        \/ \E o \in GuiOutcomes : WorkerDetect(w, o) \/ WorkerSegment(w, o)

\* What the window shows and holds: run control, progress bar, status line,
\* prediction text, current image and loaded images.
Interface(g) ==
    <<g.runEnabled, g.progressVisible, g.status, g.predictions,
      g.currentImagePath, g.loadedImages, g.pc>>

\* C19: a step of a worker's run() leaves the interface as it is (so that
\* only handlers of the interactive thread change it), leaves the other
\* workers as they are, and tells the window of itself by signals only:
\* what it adds to the queue is progress, finished or error signals of its
\* own, behind the ones already queued.
C19_WorkerLeavesInterface ==
    [][WorkerStep =>
          /\ Interface(gui') = Interface(gui)
          /\ Len(gui'.queue) > Len(gui.queue)
          /\ SubSeq(gui'.queue, 1, Len(gui.queue)) = gui.queue
          /\ \E w \in DOMAIN gui.workers :
                /\ \A v \in DOMAIN gui.workers \ {w} : gui'.workers[v] = gui.workers[v]
                /\ \A i \in (Len(gui.queue) + 1)..Len(gui'.queue) :
                      /\ gui'.queue[i].worker = w
                      /\ gui'.queue[i].kind \in {"progress", "finished", "error"}]_vars

C19_Witness ==
    /\ Len(gui.workers) = 1 /\ gui.workers[1].pc = "done"
    /\ Len(gui.queue) = 3 /\ gui.queue[3].kind = "finished"
    /\ gui.status = "Connected" /\ gui.predictions = ""
    /\ ~gui.runEnabled /\ gui.progressVisible

\* C20: the run control is disabled until the window is up, it is enabled
\* only when a current image path is set, and every worker was started with
\* a current image path.
C20_RunNeedsImage ==
    /\ gui.pc # "ready" => ~gui.runEnabled
    /\ gui.runEnabled => Truthy(gui.currentImagePath)
    /\ gui.workers # <<>> => Truthy(gui.currentImagePath)
    /\ \A w \in Outstanding : Truthy(gui.workers[w].image_path)

C20_Witness ==
    /\ gui.runEnabled /\ gui.currentImagePath = PyStr("good.png")
    /\ Len(gui.workers) = 1 /\ gui.workers[1].pc = "done"
    /\ gui.queue = <<>>
    /\ gui.predictions = "results for good.png"

\* The other inference operation.
OtherOp(op) == IF op = "detect_objects" THEN "segment_sheets" ELSE "detect_objects"

\* The fields a detection and a segmentation prediction have in common.
CommonFields(d) ==
    [class |-> d.class, confidence |-> d.confidence, center_x |-> d.center_x,
     center_y |-> d.center_y, width |-> d.width, height |-> d.height]

\* C21: segment_sheets has the contract of detect_objects: on the same
\* threshold and the same outcome of the stub call the two agree on whether
\* they return or raise, on the class of the exception raised for a
\* transport failure and on the code and details in its message, on
\* prediction_count and on the kept predictions in their order and common
\* fields; only a segmentation prediction has polygon_points, the points of
\* the response prediction as (x, y) pairs.
C21_SegmentLikeDetect ==
    last.op \in InferenceOps =>
        LET other == InferenceResult(OtherOp(last.op), last.outcome, last.threshold)
            seg == IF last.op = "segment_sheets" THEN last.ret ELSE other
            det == IF last.op = "detect_objects" THEN last.ret ELSE other
            kept == AtLeast(ResponsePredictions(last.outcome.confs), last.threshold) IN
        /\ seg.kind = det.kind
        /\ seg.kind = "raise" =>
              /\ seg.exc = det.exc
              /\ last.outcome.kind = "rpc_error" =>
                    (seg.exc = "Exception" /\ SubSeq(seg.msg, 2, 4) = SubSeq(det.msg, 2, 4))
        /\ seg.kind = "return" =>
              /\ seg.value.prediction_count = det.value.prediction_count
              /\ Len(seg.value.predictions) = Len(det.value.predictions)
              /\ \A i \in 1..Len(seg.value.predictions) :
                    /\ CommonFields(seg.value.predictions[i]) = det.value.predictions[i]
                    /\ DOMAIN seg.value.predictions[i]
                          = DOMAIN det.value.predictions[i] \cup {"polygon_points"}
                    /\ seg.value.predictions[i].polygon_points =
                          [k \in 1..Len(kept[i].polygon_points) |->
                              <<kept[i].polygon_points[k].x, kept[i].polygon_points[k].y>>]

C21_Witness ==
    /\ last.op = "segment_sheets" /\ last.ret.kind = "return"
    /\ last.outcome.confs = <<95, 40, 95>> /\ last.threshold = 95
    /\ last.ret.value.prediction_count = 2
    /\ last.ret.value.predictions[2].polygon_points = <<<<3, 3>>, <<4, 3>>>>

\* The falsy values of ServerPort: 0, null, the empty string, and the other
\* empty or zero values JSON can hold.
FalsyPorts ==
    {PyInt(0), PyNone, PyStr(""), PyFloat(0), PyBool(FALSE), PyList(<<>>), EmptyDict}

\* A file whose ServerPort is present and falsy.
FalsyPortFile(f) == f.st = "parsed" /\ \E p \in FalsyPorts : f.doc = WithPort(p)

\* The file with a falsy ServerPort taken out of its document.
AsMissingField(f) == IF FalsyPortFile(f) THEN FileWith(Nested(EmptyDict)) ELSE f

\* C24: a ServerPort that is present but falsy counts as a missing field:
\* the resolver does with the files what it does with the same files
\* without that field (same candidates looked at, same result); it goes on
\* to the next candidate and takes the port that one holds; with every
\* candidate falsy or without a value the result is 60021.  An explicit
\* port 0 is kept as 0.
C24_FalsyPortIsMissing ==
    Constructing =>
        /\ last.port = PyNone =>
              /\ last.resolved =
                    GetPortFromConfig([i \in DOMAIN files |-> AsMissingField(files[i])])
              /\ (FalsyPortFile(files[1]) /\ HoldsPort(files[2])) =>
                    /\ last.resolved.value = ConfiguredPort(files[2])
                    /\ last.resolved.probed = <<1, 2>>
              /\ (\A i \in DOMAIN files : FalsyPortFile(files[i]) \/ NoValue(files[i])) =>
                    /\ last.resolved.raised = NoExc
                    /\ last.resolved.value = PyInt(60021)
        /\ last.port = PyInt(0) =>
              /\ last.resolved.value = PyInt(0)
              /\ client.exists => (client.port = PyInt(0) /\ client.address = client.host \o ":0")

C24_Witness ==
    /\ Constructing /\ last.port = PyNone /\ client.exists
    /\ files[1] = FileWith(WithPort(PyInt(0)))
    /\ files[2] = FileWith(WithPort(PyStr("")))
    /\ last.resolved.probed = <<1, 2>>
    /\ client.port = PyInt(60021)

\* C23: with model 'both' a segmentation call for an image comes right after
\* the detection call for that image, and only when that one returned: a
\* failed detection is followed by the next image; with 'detection' only
\* detect_objects is called, with 'segmentation' only segment_sheets; no
\* image gets the same call twice, and in a completed run every image that
\* loaded got a call.
C23_DetectThenSegment ==
    LET n == Len(cli.issued) IN
    /\ cli.model = "detection" => \A i \in 1..n : cli.issued[i].op = "detect_objects"
    /\ cli.model = "segmentation" => \A i \in 1..n : cli.issued[i].op = "segment_sheets"
    /\ cli.model = "both" =>
          \A i \in 1..n :
              /\ cli.issued[i].op = "segment_sheets" =>
                    /\ i > 1
                    /\ cli.issued[i - 1] =
                          [image |-> cli.issued[i].image, op |-> "detect_objects", ok |-> TRUE]
              /\ (cli.issued[i].op = "detect_objects" /\ i < n) =>
                    IF cli.issued[i].ok
                    THEN /\ cli.issued[i + 1].image = cli.issued[i].image
                         /\ cli.issued[i + 1].op = "segment_sheets"
                    ELSE cli.issued[i + 1].image > cli.issued[i].image
    /\ \A i, j \in 1..n :
          i < j => /\ cli.issued[i].image <= cli.issued[j].image
                   /\ cli.issued[i].image = cli.issued[j].image
                         => cli.issued[i].op # cli.issued[j].op
    /\ cli.end = "completed" =>
          \A k \in 1..Len(cli.paths) :
              cli.paths[k].opens => \E i \in 1..n : cli.issued[i].image = k

C23_Witness ==
    /\ cli.model = "both" /\ cli.end = "completed"
    /\ Len(cli.paths) = 2
    /\ cli.issued = << [image |-> 1, op |-> "detect_objects", ok |-> FALSE],
                       [image |-> 2, op |-> "detect_objects", ok |-> TRUE],
                       [image |-> 2, op |-> "segment_sheets", ok |-> TRUE] >>

\* The finished and error signals of worker w that wait in the queue.
QueuedTerminals(w) ==
    {i \in DOMAIN gui.queue :
        gui.queue[i].worker = w /\ gui.queue[i].kind \in {"finished", "error"}}

\* C22: a worker whose run() has ended has emitted exactly one terminal
\* signal, finished or error, and a running one none, whatever the image,
\* the client and the remote calls did; the handler of a terminal signal
\* leaves the run control enabled and the progress bar hidden; and with no
\* worker running and no signal waiting the window is not in the running
\* state.
C22_OneTerminalSignal ==
    /\ [](\A w \in DOMAIN gui.workers :
            /\ gui.workers[w].terminals = (IF gui.workers[w].pc = "done" THEN 1 ELSE 0)
            /\ Cardinality(QueuedTerminals(w)) <= gui.workers[w].terminals)
    /\ []((gui.workers # <<>> /\ Outstanding = {} /\ gui.queue = <<>>)
             => (gui.runEnabled /\ ~gui.progressVisible))
    /\ [][(OnInferenceComplete \/ OnInferenceError)
             => (gui'.runEnabled /\ ~gui'.progressVisible)]_vars

C22_Witness ==
    /\ ~client.exists
    /\ Len(gui.workers) = 2
    /\ \A w \in DOMAIN gui.workers : gui.workers[w].pc = "done"
    /\ gui.queue = <<>>
    /\ gui.status = "Error occurred"
    /\ gui.runEnabled /\ ~gui.progressVisible

====
